---- MODULE Spec2Model ----
(***************************************************************************)
(* Model of kaldi_main.py: the Kaldi command-module loader with its status *)
(* overlay (App, FakeStringVar), the sleep/wake grammar, the UI control    *)
(* grammar, the watchdog reloader and main().                              *)
(*                                                                         *)
(* Strings are sequences of Unicode code points, so that sorted() and      *)
(* str.join() are computed as Python computes them.                        *)
(***************************************************************************)
EXTENDS Integers, Sequences, FiniteSets, TLC

VARIABLES
    mpc,            \* position of the thread running main()
    upc,            \* position of the App thread (App.run)
    procState,      \* "running" | "exited" | "reexec" (os.execl replaced the image)
    connected,      \* the engine is connected
    engineCalls,    \* set of <<thread, engine method>> calls made so far
    disconnects,    \* number of engine.disconnect() calls so far
    quitRequests,   \* number of do_quit invocations so far
    interrupted,    \* a KeyboardInterrupt was caught by main()
    observer,       \* "none" | "running" | "stopped": the watchdog observer
    now,            \* datetime.datetime.now(), in ticks
    last_modified,  \* WatchDogFileChangeHandler.last_modified
    heard,          \* the utterance being processed by the recognition loop
    requestedAt,    \* the tick of the first shutdown request, -1 before it
    restartTicks,   \* the ticks of the reloader's last two do_restart calls, -1 for none
    dialog,         \* <<parity of the number of quit dialogs answered, the last answer>>
    sleeping,       \* the module-level flag
    exclusive,      \* sleep_grammar's exclusiveness
    call,           \* the most recent sleep/wake call: <<name, force, sleeping before>>
    effects,        \* the collaborator calls that call made, in order
    attr,           \* attr[v]: what self.<v> refers to, "fake" or "real"
    fakeVal,        \* fakeVal[v]: FakeStringVar.value of the object made in __init__
    realVal,        \* realVal[v]: value of the tk.StringVar made by upgrade()
    wr,             \* wr[t]: the <var>.set(value) call thread t is inside of
    lastSet,        \* lastSet[v]: the value of the last completed set on v
    lateWrite,      \* lateWrite[v]: a set on v was not complete when upgrade began
    context,        \* App.context, a dict: sequence of <<name, value>> in insertion order
    err             \* err[t]: exception raised by thread t's last App call

histVars == <<requestedAt, restartTicks, dialog>>

vars == <<histVars, mpc, upc, procState, connected, engineCalls, disconnects, quitRequests,
          interrupted, observer, now, last_modified, heard, sleeping, exclusive,
          call, effects, attr, fakeVal, realVal, wr, lastSet, lateWrite, context, err>>

lifeRest  == <<histVars, procState, connected, engineCalls, disconnects, quitRequests,
               interrupted, observer, now, last_modified, heard>>
lifeVars  == <<histVars, mpc, procState, connected, engineCalls, disconnects, quitRequests,
               interrupted, observer, now, last_modified, heard>>
sleepVars == <<sleeping, exclusive, call, effects>>
ctxVars   == <<context, err>>

-----------------------------------------------------------------------------
(* Strings *)

\* "a", "a1", "b": context names; "a" is a prefix of "a1"
Names == { <<97>>, <<97, 49>>, <<98>> }
\* "1", "2": context values
Values == { <<49>>, <<50>> }
\* Python's None, which is no string
None == << -1 >>

Initializing == <<73, 110, 105, 116, 105, 97, 108, 105, 122, 105, 110, 103, 46, 46, 46>>
Asleep       == <<65, 115, 108, 101, 101, 112, 46, 46, 46>>
Listening    == <<76, 105, 115, 116, 101, 110, 105, 110, 103, 46, 46, 46>>
LastHeard    == <<76, 97, 115, 116, 32, 104, 101, 97, 114, 100, 58, 32>>

\* str.__lt__: lexicographic order on code points
StrLess(a, b) ==
    \E i \in 1..Len(b) :
        /\ \A j \in 1..(i - 1) : j <= Len(a) /\ a[j] = b[j]
        /\ \/ i = Len(a) + 1
           \/ i <= Len(a) /\ a[i] < b[i]

RECURSIVE join(_, _)
\* sep.join(strs)
join(sep, strs) ==
    IF strs = <<>> THEN <<>>
    ELSE IF Len(strs) = 1 THEN strs[1]
    ELSE strs[1] \o sep \o join(sep, Tail(strs))

\* the list with x put before the first element greater than x
InsertSorted(x, s) ==
    LET before == { i \in 1..Len(s) : StrLess(x, s[i]) }
        k == IF before = {} THEN Len(s) + 1
             ELSE CHOOSE i \in before : \A j \in before : i <= j
    IN  SubSeq(s, 1, k - 1) \o <<x>> \o SubSeq(s, k, Len(s))

RECURSIVE sortedFrom(_, _)
sortedFrom(done, rest) ==
    IF rest = <<>> THEN done
    ELSE sortedFrom(InsertSorted(rest[1], done), Tail(rest))

\* the list without sorting: what a missing sorted() would leave
unsorted(strs) == strs

\* sorted(strs): ascending, stable
sorted(strs) == sortedFrom(<<>>, strs)

-----------------------------------------------------------------------------
(* App: the status variables *)

Vars == {"status_line_var", "last_heard_var", "context_var"}
Writers == {"main", "other"}

NoWrite == [var |-> "none", val |-> <<>>, ref |-> "fake"]
Idle(t) == wr[t].var = "none"

\* the value of the object self.<v> refers to
Value(v) == IF attr[v] = "fake" THEN fakeVal[v] ELSE realVal[v]

\* the statements of App.run, in order; upc names the next one to execute
RunSteps == <<"tk_root",
              "upgrade_status_line_var", "store_status_line_var",
              "upgrade_last_heard_var", "store_last_heard_var",
              "upgrade_context_var", "store_context_var",
              "mainloop">>
StepIndex(step) == CHOOSE i \in 1..Len(RunSteps) : RunSteps[i] = step

\* App.run has called self.<v>.upgrade()
Begun(v) == StepIndex(upc) > StepIndex("upgrade_" \o v)

\* <v>.set(s), first half: thread t loads self.<v> and enters its set()
BeginSet(t, v, s) ==
    /\ wr' = [wr EXCEPT ![t] = [var |-> v, val |-> s, ref |-> attr[v]]]
    /\ lateWrite' = [lateWrite EXCEPT ![v] = @ \/ Begun(v)]

\* FakeStringVar.set / StringVar.set: the store into the object that was loaded
FinishSet(t) ==
    /\ ~Idle(t)
    /\ procState = "running"
    /\ IF wr[t].ref = "fake"
       THEN /\ fakeVal' = [fakeVal EXCEPT ![wr[t].var] = wr[t].val]
            /\ realVal' = realVal
       ELSE /\ realVal' = [realVal EXCEPT ![wr[t].var] = wr[t].val]
            /\ fakeVal' = fakeVal
    /\ lastSet' = [lastSet EXCEPT ![wr[t].var] = wr[t].val]
    /\ wr' = [wr EXCEPT ![t] = NoWrite]
    /\ UNCHANGED <<lifeVars, upc, sleepVars, attr, lateWrite, ctxVars>>

\* App.set_status_line(s) on thread t, up to the entry into set
set_status_line(t, s) == BeginSet(t, "status_line_var", s)

\* App.set_last_heard(s) on thread t, up to the entry into set
set_last_heard(t, s) == BeginSet(t, "last_heard_var", s)

\* tk.StringVar() made without the buffered value
upgrade_unseeded(v) == <<>>

\* FakeStringVar.upgrade: the initial value of the tk.StringVar it returns
upgrade(v) == fakeVal[v]

\* App.run, lines 105-107: the tk root and the window-close protocol
RunTkRoot ==
    /\ upc = "tk_root"
    /\ procState = "running"
    /\ upc' = "upgrade_status_line_var"
    /\ UNCHANGED <<lifeVars, sleepVars, attr, fakeVal, realVal, wr, lastSet,
                   lateWrite, ctxVars>>

\* App.run: the right-hand side self.<v>.upgrade() is evaluated
RunUpgrade(v) ==
    /\ upc = "upgrade_" \o v
    /\ procState = "running"
    /\ realVal' = [realVal EXCEPT ![v] = upgrade(v)]
    /\ lateWrite' = [lateWrite EXCEPT ![v] = \E t \in Writers : wr[t].var = v]
    /\ upc' = "store_" \o v
    /\ UNCHANGED <<lifeVars, sleepVars, attr, fakeVal, wr, lastSet, ctxVars>>

\* App.run: the result is stored into self.<v> (and bound to its label)
RunStore(v) ==
    /\ upc = "store_" \o v
    /\ procState = "running"
    /\ attr' = [attr EXCEPT ![v] = "real"]
    /\ upc' = RunSteps[StepIndex(upc) + 1]
    /\ UNCHANGED <<lifeVars, sleepVars, fakeVal, realVal, wr, lastSet, lateWrite,
                   ctxVars>>

\* App.run up to root.mainloop(), one statement at a time
UiRun == RunTkRoot \/ \E v \in Vars : RunUpgrade(v) \/ RunStore(v)

-----------------------------------------------------------------------------
(* App.context and set_visual_context *)

HasKey(d, name) == \E i \in 1..Len(d) : d[i][1] = name

\* self.context[name] = value: an existing key keeps its place
DictSet(d, name, value) ==
    IF HasKey(d, name)
    THEN [i \in 1..Len(d) |-> IF d[i][1] = name THEN <<name, value>> ELSE d[i]]
    ELSE Append(d, <<name, value>>)

\* del self.context[name], for a name that is present
DictDel(d, name) == SelectSeq(d, LAMBDA e : e[1] # name)

\* f"{name}: {value}"
Line(e) == e[1] \o <<58, 32>> \o e[2]

\* the generator over self.context.items()
Lines(d) == [i \in 1..Len(d) |-> Line(d[i])]

\* the composite with the lines in descending order (sorted(..., reverse=True))
RenderDescending(d) ==
    LET up == sorted(Lines(d))
    IN  join(<<10>>, [i \in 1..Len(up) |-> up[Len(up) + 1 - i]])

\* "\n".join(sorted(...))
Render(d) == join(<<10>>, sorted(Lines(d)))

\* App.set_visual_context(name, value) called on thread t, up to the entry
\* into context_var.set; a missing name makes del raise KeyError
set_visual_context(t, name, value) ==
    /\ Idle(t)
    /\ procState = "running"
    /\ IF value = None /\ ~HasKey(context, name)
       THEN /\ err' = [err EXCEPT ![t] = "KeyError"]
            /\ UNCHANGED <<context, wr, lateWrite>>
       ELSE /\ context' = IF value = None THEN DictDel(context, name)
                          ELSE DictSet(context, name, value)
            /\ err' = [err EXCEPT ![t] = "none"]
            /\ BeginSet(t, "context_var", Render(context'))
    /\ UNCHANGED <<lifeVars, upc, sleepVars, attr, fakeVal, realVal, lastSet>>

-----------------------------------------------------------------------------
(* main.notify_status and load_sleep_wake_grammar *)

StatusLineFor(status) ==
    CASE status = "LOADING"  -> Initializing
      [] status = "SLEEPING" -> Asleep
      [] status = "READY"    -> Listening

\* notify_status(status) on thread t, up to the entry into status_line_var.set
notify_status(t, status) == set_status_line(t, StatusLineFor(status))

\* a guard that lets every wake call toggle
wake_always(force) == TRUE

\* the guard of wake: "if sleeping or force"
wake_guard(force) == sleeping \/ force

\* a guard that lets only a forced sleep call toggle
sleep_forced_only(force) == force

\* the guard of sleep: "if not sleeping or force"
sleep_guard(force) == ~sleeping \/ force

\* wake(force) on thread t
wake(t, force) ==
    /\ call' = <<"wake", force, sleeping>>
    /\ IF wake_guard(force)
       THEN /\ sleeping' = FALSE
            /\ exclusive' = FALSE
            /\ effects' = << <<"set_exclusiveness", "False">>,
                             <<"notify_status", "READY">> >>
       ELSE /\ UNCHANGED <<sleeping, exclusive>>
            /\ effects' = << <<"notify_status", "READY">> >>
    /\ notify_status(t, "READY")

\* sleep(force) on thread t
sleep(t, force) ==
    /\ call' = <<"sleep", force, sleeping>>
    /\ IF sleep_guard(force)
       THEN /\ sleeping' = TRUE
            /\ exclusive' = TRUE
            /\ effects' = << <<"set_exclusiveness", "True">>,
                             <<"notify_status", "SLEEPING">> >>
       ELSE /\ UNCHANGED <<sleeping, exclusive>>
            /\ effects' = << <<"notify_status", "SLEEPING">> >>
    /\ notify_status(t, "SLEEPING")

\* the context of sleep_noise_rule: FuncContext(lambda: sleeping)
sleep_noise_rule_active == sleeping

\* the initial transition made without force
load_unforced(t, initial_awake) ==
    IF initial_awake THEN wake(t, FALSE) ELSE sleep(t, FALSE)

\* load_sleep_wake_grammar(initial_awake, notify_status), lines 214-217
load_sleep_wake_grammar(t, initial_awake) ==
    IF initial_awake THEN wake(t, TRUE) ELSE sleep(t, TRUE)

-----------------------------------------------------------------------------
(* Initial state: App.__init__ has run, its thread is started, main() goes on *)

InitAt(m) ==
    /\ mpc = m
    /\ upc = "tk_root"
    /\ procState = "running"
    /\ connected = FALSE
    /\ engineCalls = {}
    /\ disconnects = 0
    /\ quitRequests = 0
    /\ interrupted = FALSE
    /\ observer = "none"
    /\ now = 0
    /\ last_modified = 0
    /\ heard = "none"
    /\ requestedAt = -1
    /\ restartTicks = <<-1, -1>>
    /\ dialog = <<0, FALSE>>
    /\ sleeping = FALSE
    /\ exclusive = FALSE
    /\ call = <<"none", FALSE, FALSE>>
    /\ effects = <<>>
    /\ attr = [v \in Vars |-> "fake"]
    /\ fakeVal = [v \in Vars |-> <<>>]
    /\ realVal = [v \in Vars |-> <<>>]
    /\ wr = [t \in Writers |-> NoWrite]
    /\ lastSet = [v \in Vars |-> <<>>]
    /\ lateWrite = [v \in Vars |-> FALSE]
    /\ context = <<>>
    /\ err = [t \in Writers |-> "none"]

Init == InitAt("notify_loading")

-----------------------------------------------------------------------------
(* SpecCtx: set_visual_context called from the recognition thread, one call *)
(* after another, on an App whose variables are not being upgraded          *)

CtxSet == \E name \in Names, value \in Values : set_visual_context("main", name, value)
CtxRemove == \E name \in Names : set_visual_context("main", name, None)
CtxStore == FinishSet("main")

NextCtx == CtxSet \/ CtxRemove \/ CtxStore
SpecCtx == Init /\ [][NextCtx]_vars

-----------------------------------------------------------------------------
(* The engine, the grammars' rules, the reloader and main() *)

\* bound: engine.disconnect() calls made from the window-close handler
MaxDisconnects == 2
\* bound: the last tick of the clock
MaxTime == 2
\* resolution of the clock: ticks per second
TicksPerSecond == 1
\* datetime.timedelta(seconds=1), in ticks
DebounceWindow == 1 * TicksPerSecond

\* what can be recognized: the rules of SleepRule and ControlRule, speech that
\* only the dictation of sleep_noise_rule matches, and a recognition without words
Utterances == {"start listening", "stop listening", "halt listening",
               "please quit the kaldi UI", "please restart the kaldi UI",
               "noise", "empty"}

WordsOf(u) ==
    CASE u = "start listening" -> <<<<115, 116, 97, 114, 116>>, <<108, 105, 115, 116, 101, 110, 105, 110, 103>>>>
      [] u = "stop listening" -> <<<<115, 116, 111, 112>>, <<108, 105, 115, 116, 101, 110, 105, 110, 103>>>>
      [] u = "halt listening" -> <<<<104, 97, 108, 116>>, <<108, 105, 115, 116, 101, 110, 105, 110, 103>>>>
      [] u = "please quit the kaldi UI" -> <<<<112, 108, 101, 97, 115, 101>>, <<113, 117, 105, 116>>, <<116, 104, 101>>, <<107, 97, 108, 100, 105>>, <<85, 73>>>>
      [] u = "please restart the kaldi UI" -> <<<<112, 108, 101, 97, 115, 101>>, <<114, 101, 115, 116, 97, 114, 116>>, <<116, 104, 101>>, <<107, 97, 108, 100, 105>>, <<85, 73>>>>
      [] u = "noise" -> <<<<104, 105>>>>
      [] u = "empty" -> <<>>

\* the rules the recognizer can reach: an exclusive sleep grammar hides the
\* KaldiUI grammar, and sleep_noise_rule is active only in its context
Recognizable(u) ==
    CASE u \in {"please quit the kaldi UI", "please restart the kaldi UI"} -> ~exclusive
      [] u = "noise" -> sleep_noise_rule_active
      [] OTHER -> TRUE

\* a call of an engine method on thread t
EngineCall(t, method) == engineCalls' = engineCalls \cup {<<t, method>>}

\* a shutdown request is made now: the tick of the first one is kept
NoteRequest ==
    /\ requestedAt' = IF requestedAt = -1 THEN now ELSE requestedAt
    /\ restartTicks' = restartTicks

\* engine.disconnect() called on thread t by do_quit
disconnect(t) ==
    /\ NoteRequest
    /\ connected' = FALSE
    /\ disconnects' = disconnects + 1
    /\ quitRequests' = quitRequests + 1
    /\ EngineCall(t, "disconnect")

\* restart_process(): os.execl replaces the process image
restart_process == procState' = "reexec"

\* main, line 283
MainNotifyLoading ==
    /\ mpc = "notify_loading" /\ procState = "running" /\ Idle("main")
    /\ notify_status("main", "LOADING")
    /\ mpc' = "connect"
    /\ UNCHANGED <<lifeRest, upc, sleepVars, attr, fakeVal, realVal, lastSet, ctxVars>>

\* main, line 286: engine.connect()
MainConnect ==
    /\ mpc = "connect" /\ procState = "running" /\ Idle("main")
    /\ connected' = TRUE
    /\ EngineCall("main", "connect")
    /\ mpc' = "load_sleep_wake"
    /\ UNCHANGED <<histVars, procState, disconnects, quitRequests, interrupted, observer, now,
                   last_modified, heard, upc, sleepVars, attr, fakeVal, realVal, wr,
                   lastSet, lateWrite, ctxVars>>

\* main, line 289: load_sleep_wake_grammar(initial_awake=True, ...)
MainLoadSleepWake ==
    /\ mpc = "load_sleep_wake" /\ procState = "running" /\ Idle("main")
    /\ load_sleep_wake_grammar("main", TRUE)
    /\ mpc' = "load_ui"
    /\ UNCHANGED <<lifeRest, upc, attr, fakeVal, realVal, lastSet, ctxVars>>

\* main, lines 290-292 and 308: load_ui_grammar, directory.load(),
\* engine.prepare_for_recognition(), one statement at a time
MainLoadRest ==
    /\ mpc \in {"load_ui", "load_dir", "prepare"}
    /\ procState = "running" /\ Idle("main")
    /\ mpc' = CASE mpc = "load_ui" -> "load_dir"
                [] mpc = "load_dir" -> "prepare"
                [] mpc = "prepare" -> "watchdog"
    /\ IF mpc = "prepare" THEN EngineCall("main", "prepare_for_recognition")
       ELSE UNCHANGED engineCalls
    /\ UNCHANGED <<histVars, procState, connected, disconnects, quitRequests, interrupted,
                   observer, now, last_modified, heard, upc, sleepVars, attr, fakeVal,
                   realVal, wr, lastSet, lateWrite, ctxVars>>

\* main, line 309: start_watchdog_observer; watchdog may not be installed
MainStartWatchdog ==
    /\ mpc = "watchdog" /\ procState = "running" /\ Idle("main")
    /\ \E installed \in BOOLEAN :
          IF installed
          THEN observer' = "running" /\ last_modified' = now
          ELSE UNCHANGED <<observer, last_modified>>
    /\ mpc' = "notify_ready"
    /\ UNCHANGED <<histVars, procState, connected, engineCalls, disconnects, quitRequests,
                   interrupted, now, heard, upc, sleepVars, attr, fakeVal, realVal, wr,
                   lastSet, lateWrite, ctxVars>>

\* main, line 311
MainNotifyReady ==
    /\ mpc = "notify_ready" /\ procState = "running" /\ Idle("main")
    /\ notify_status("main", "READY")
    /\ mpc' = "recognition"
    /\ UNCHANGED <<lifeRest, upc, sleepVars, attr, fakeVal, realVal, lastSet, ctxVars>>

\* main.on_recognition(words), called by do_recognition for a recognition
on_recognition(u) ==
    /\ mpc = "recognition" /\ procState = "running" /\ Idle("main")
    /\ connected
    /\ Recognizable(u)
    /\ LET s == join(<<32>>, WordsOf(u))
       IN  IF Len(s) > 0 THEN set_last_heard("main", LastHeard \o s)
           ELSE UNCHANGED <<wr, lateWrite>>
    /\ heard' = u
    /\ mpc' = "process"
    /\ UNCHANGED <<histVars, procState, connected, engineCalls, disconnects, quitRequests,
                   interrupted, observer, now, last_modified, upc, sleepVars, attr,
                   fakeVal, realVal, lastSet, ctxVars>>

\* SleepRule "start listening": Function(wake) + Function(start_saving...)
StartListeningSeries == <<"wake", "start_saving_adaptation_state">>

\* the actions of "stop listening" in the opposite order
StopListeningSwapped == <<"sleep", "stop_saving_adaptation_state">>

\* SleepRule "stop listening", "halt listening": Function(stop_saving...) + Function(sleep)
StopListeningSeries == <<"stop_saving_adaptation_state", "sleep">>

\* the action series of the SleepRule mapping that u matches
SeriesOf(u) ==
    IF u = "start listening" THEN StartListeningSeries ELSE StopListeningSeries

\* the recognition loop is executing the series of a SleepRule mapping;
\* "process" is before its first action, "process2" before its second
InSeries ==
    /\ mpc \in {"process", "process2"}
    /\ heard \in {"start listening", "stop listening", "halt listening"}
    /\ procState = "running" /\ Idle("main")

\* the action of the series that is executed next
CurrentAction == SeriesOf(heard)[IF mpc = "process" THEN 1 ELSE 2]

\* the series goes on after an action that succeeded, or is complete
SeriesAdvance ==
    IF mpc = "process"
    THEN mpc' = "process2" /\ heard' = heard
    ELSE mpc' = "recognition" /\ heard' = "none"

\* Function(wake) of a series
SeriesWake ==
    /\ InSeries /\ CurrentAction = "wake"
    /\ wake("main", FALSE)
    /\ SeriesAdvance
    /\ UNCHANGED <<histVars, procState, connected, engineCalls, disconnects,
                   quitRequests, interrupted, observer, now, last_modified, upc, attr,
                   fakeVal, realVal, lastSet, ctxVars>>

\* Function(sleep) of a series
SeriesSleep ==
    /\ InSeries /\ CurrentAction = "sleep"
    /\ sleep("main", FALSE)
    /\ SeriesAdvance
    /\ UNCHANGED <<histVars, procState, connected, engineCalls, disconnects,
                   quitRequests, interrupted, observer, now, last_modified, upc, attr,
                   fakeVal, realVal, lastSet, ctxVars>>

\* Function(lambda: get_engine().start/stop_saving_adaptation_state()) of a
\* series; when the engine call raises, the series is abandoned: an action
\* series does not execute the actions after one that failed
SeriesSaving ==
    /\ InSeries
    /\ CurrentAction \in {"start_saving_adaptation_state", "stop_saving_adaptation_state"}
    /\ EngineCall("main", CurrentAction)
    /\ \E raises \in BOOLEAN :
          IF raises
          THEN mpc' = "recognition" /\ heard' = "none"
          ELSE SeriesAdvance
    /\ UNCHANGED <<histVars, procState, connected, disconnects, quitRequests,
                   interrupted, observer, now, last_modified, upc, sleepVars, attr,
                   fakeVal, realVal, wr, lastSet, lateWrite, ctxVars>>

\* SleepRule "start listening"
RuleStartListening ==
    heard = "start listening" /\ (SeriesWake \/ SeriesSleep \/ SeriesSaving)

\* SleepRule "stop listening", "halt listening"
RuleStopListening ==
    heard \in {"stop listening", "halt listening"}
        /\ (SeriesWake \/ SeriesSleep \/ SeriesSaving)

\* ControlRule "please quit the kaldi UI": do_quit = lambda: engine.disconnect()
RuleQuit ==
    /\ mpc = "process" /\ procState = "running" /\ Idle("main")
    /\ heard = "please quit the kaldi UI"
    /\ disconnect("main")
    /\ heard' = "none"
    /\ mpc' = "recognition"
    /\ UNCHANGED <<dialog, procState, interrupted, observer, now, last_modified, upc,
                   sleepVars, attr, fakeVal, realVal, wr, lastSet, lateWrite, ctxVars>>

\* ControlRule "please restart the kaldi UI": do_restart = restart_process
RuleRestart ==
    /\ mpc = "process" /\ procState = "running" /\ Idle("main")
    /\ heard = "please restart the kaldi UI"
    /\ restart_process
    /\ UNCHANGED <<histVars, mpc, connected, engineCalls, disconnects, quitRequests,
                   interrupted, observer, now, last_modified, heard, upc, sleepVars,
                   attr, fakeVal, realVal, wr, lastSet, lateWrite, ctxVars>>

\* sleep_noise_rule (its action does nothing) and a recognition without words
RuleNone ==
    /\ mpc = "process" /\ procState = "running" /\ Idle("main")
    /\ heard \in {"noise", "empty"}
    /\ heard' = "none"
    /\ mpc' = "recognition"
    /\ UNCHANGED <<histVars, procState, connected, engineCalls, disconnects, quitRequests,
                   interrupted, observer, now, last_modified, upc, sleepVars, attr,
                   fakeVal, realVal, wr, lastSet, lateWrite, ctxVars>>

\* engine.do_recognition returns once the engine is disconnected
MainRecognitionReturns ==
    /\ mpc = "recognition" /\ procState = "running" /\ Idle("main")
    /\ ~connected
    /\ mpc' = "cleanup"
    /\ UNCHANGED <<lifeRest, upc, sleepVars, attr, fakeVal, realVal, wr, lastSet,
                   lateWrite, ctxVars>>

\* main, lines 319-320: KeyboardInterrupt raised in do_recognition and caught
MainKeyboardInterrupt ==
    /\ mpc = "recognition" /\ procState = "running" /\ Idle("main")
    /\ interrupted' = TRUE
    /\ NoteRequest
    /\ mpc' = "cleanup"
    /\ UNCHANGED <<dialog, procState, connected, engineCalls, disconnects, quitRequests,
                   observer, now, last_modified, heard, upc, sleepVars, attr, fakeVal,
                   realVal, wr, lastSet, lateWrite, ctxVars>>

\* main, lines 323-325, then main returns and the process exits
\* (the App thread is a daemon)
MainCleanup ==
    /\ mpc = "cleanup" /\ procState = "running"
    /\ observer' = IF observer = "running" THEN "stopped" ELSE observer
    /\ mpc' = "exited"
    /\ procState' = "exited"
    /\ UNCHANGED <<histVars, connected, engineCalls, disconnects, quitRequests, interrupted,
                   now, last_modified, heard, upc, sleepVars, attr, fakeVal, realVal,
                   wr, lastSet, lateWrite, ctxVars>>

\* App._on_window_close where the answer is not looked at
on_window_close_unasked(answer) ==
    /\ upc = "mainloop" /\ procState = "running"
    /\ disconnects < MaxDisconnects
    /\ disconnect("ui")
    /\ UNCHANGED <<mpc, procState, interrupted, observer, now, last_modified, heard,
                   upc, sleepVars, attr, fakeVal, realVal, wr, lastSet, lateWrite,
                   ctxVars>>

\* App._on_window_close on the App thread; answer is the user's reply to askyesno
on_window_close(answer) ==
    /\ upc = "mainloop" /\ procState = "running"
    /\ IF answer
       THEN /\ disconnects < MaxDisconnects
            /\ disconnect("ui")
       ELSE UNCHANGED <<connected, engineCalls, disconnects, quitRequests, requestedAt,
                        restartTicks>>
    /\ UNCHANGED <<mpc, procState, interrupted, observer, now, last_modified, heard,
                   upc, sleepVars, attr, fakeVal, realVal, wr, lastSet, lateWrite,
                   ctxVars>>

\* a handler that never returns early
debounce_off == FALSE

\* line 136: the event falls within a second of last_modified
debounced == now - last_modified < DebounceWindow

\* WatchDogFileChangeHandler.on_any_event(event) on the observer's thread
on_any_event ==
    /\ observer = "running" /\ procState = "running"
    /\ IF debounced
       THEN UNCHANGED <<last_modified, procState, restartTicks>>
       ELSE /\ last_modified' = now
            /\ restartTicks' = <<restartTicks[2], now>>
            /\ restart_process
    /\ UNCHANGED <<requestedAt, dialog, mpc, connected, engineCalls, disconnects, quitRequests,
                   interrupted, observer, now, heard, upc, sleepVars, attr, fakeVal,
                   realVal, wr, lastSet, lateWrite, ctxVars>>

\* time passes, up to the tick limit
TickTo(limit) ==
    /\ now < limit /\ procState = "running"
    /\ now' = now + 1
    /\ UNCHANGED <<histVars, mpc, procState, connected, engineCalls, disconnects, quitRequests,
                   interrupted, observer, last_modified, heard, upc, sleepVars, attr,
                   fakeVal, realVal, wr, lastSet, lateWrite, ctxVars>>

Tick == TickTo(MaxTime)

\* the window is closed and the quit dialog answered
WindowClose == \E answer \in BOOLEAN : on_window_close(answer) /\ UNCHANGED dialog

MainStore == FinishSet("main")

MainThread ==
    \/ MainNotifyLoading \/ MainConnect \/ MainLoadSleepWake \/ MainLoadRest
    \/ MainStartWatchdog \/ MainNotifyReady
    \/ \E u \in Utterances : on_recognition(u)
    \/ RuleStartListening \/ RuleStopListening \/ RuleQuit \/ RuleRestart \/ RuleNone
    \/ MainRecognitionReturns \/ MainKeyboardInterrupt \/ MainCleanup
    \/ MainStore

AppThread ==
    \/ UiRun
    \/ WindowClose

Next == MainThread \/ AppThread \/ on_any_event \/ Tick
Spec == Init /\ [][Next]_vars

-----------------------------------------------------------------------------
(* Claims about shutdown and restart, checked under Spec *)

\* C2 (as claimed): when shutdown is requested twice, once by the voice command
\* and once by a confirmed window close, engine.disconnect is called exactly once.
C2_TwoQuitRequestsOneDisconnect ==
    ( /\ quitRequests = 2
      /\ <<"main", "disconnect">> \in engineCalls
      /\ <<"ui", "disconnect">> \in engineCalls )
        => disconnects = 1

\* C3 (as claimed): no execution reaches the re-exec of a restart with the
\* engine still connected; disconnect has been invoked before it.
C3_DisconnectBeforeReexec ==
    procState = "reexec" => (~connected /\ disconnects >= 1)

\* C9 (as claimed): the process never exits after a keyboard interrupt with the
\* engine still connected; disconnect has been invoked before the exit.
C9_InterruptDisconnectsBeforeExit ==
    (procState = "exited" /\ interrupted) => (~connected /\ disconnects >= 1)

\* C10 (as claimed): the App (UI) thread never calls a method of the engine.
C10_UiThreadNeverCallsEngine ==
    \A c \in engineCalls : c[1] # "ui"

\* C11 (as claimed): once shutdown has been requested, the UI event loop is
\* stopped within one poll interval (1 second): later than that the App thread
\* is no longer inside root.mainloop() of a running process.
C11_EventLoopStopsWithinPollInterval ==
    (requestedAt >= 0 /\ now - requestedAt > TicksPerSecond)
        => ~(procState = "running" /\ upc = "mainloop")

\* C13 (as claimed): while the engine is not yet connected or a grammar (the
\* sleep/wake grammar, the UI control grammar, the command-module directory) is
\* not yet loaded, READY has not been notified: the status is not "Listening...".
C13_ReadyOnlyAfterLoading ==
    mpc \in {"notify_loading", "connect", "load_sleep_wake", "load_ui", "load_dir"}
        => /\ lastSet["status_line_var"] # Listening
           /\ ~(wr["main"].var = "status_line_var" /\ wr["main"].val = Listening)

\* C14 (as claimed): whether or not the engine's stop_saving_adaptation_state /
\* start_saving_adaptation_state call raises, a recognized "stop listening" or
\* "halt listening" ends with the controller ASLEEP and exclusiveness enabled,
\* and a recognized "start listening" ends with it AWAKE.
C14_SavingFailureKeepsTransition ==
    [][/\ ( /\ mpc \in {"process", "process2"}
            /\ heard \in {"stop listening", "halt listening"}
            /\ mpc' = "recognition" ) => (sleeping' /\ exclusive')
       /\ ( /\ mpc \in {"process", "process2"}
            /\ heard = "start listening"
            /\ mpc' = "recognition" ) => ~sleeping']_vars

\* the texts on_recognition can write: "Last heard: " and a non-empty phrase
HeardPhrases ==
    {LastHeard \o join(<<32>>, WordsOf(u)) : u \in Utterances \ {"empty"}}

\* C20 (as claimed): a recognition with no words writes nothing, a recognition
\* writes nothing but the last-heard variable, and between recognitions the
\* last-heard value is the initial empty string or "Last heard: " followed by
\* the most recent non-empty recognized phrase
C20_LastHeardIsMostRecentPhrase ==
    /\ (mpc = "process" /\ heard = "empty") => Idle("main")
    /\ (mpc = "process" /\ ~Idle("main")) =>
          /\ wr["main"].var = "last_heard_var"
          /\ wr["main"].val = LastHeard \o join(<<32>>, WordsOf(heard))
    /\ lastSet["last_heard_var"] \in HeardPhrases \cup {<<>>}
    /\ (mpc = "recognition" /\ Idle("main")) =>
          \/ Value("last_heard_var") = <<>>
          \/ Value("last_heard_var") = lastSet["last_heard_var"]

\* C15: a voice command changes the state to ASLEEP only as the second action
\* of its series, after stop_saving_adaptation_state was requested as the first;
\* start_saving_adaptation_state is requested only as the second action of its
\* series, after wake has run and with the state AWAKE.
C15_SavingOrderedAroundTransition ==
    [][/\ (~sleeping /\ sleeping' /\ mpc \in {"process", "process2"}) =>
              /\ mpc = "process2"
              /\ SeriesOf(heard)[1] = "stop_saving_adaptation_state"
              /\ <<"main", "stop_saving_adaptation_state">> \in engineCalls
       /\ ( /\ InSeries
            /\ CurrentAction = "start_saving_adaptation_state"
            /\ mpc' # mpc ) =>
              /\ ~sleeping
              /\ mpc = "process2"
              /\ SeriesOf(heard)[1] = "wake"
              /\ call[1] = "wake"]_vars

\* C15 witness: "start listening" and then "stop listening" were processed
C15_Witness ==
    /\ sleeping
    /\ call = <<"sleep", FALSE, FALSE>>
    /\ mpc = "recognition"
    /\ <<"main", "start_saving_adaptation_state">> \in engineCalls
    /\ <<"main", "stop_saving_adaptation_state">> \in engineCalls

\* the status passed to the most recent notify_status call made by wake or sleep
LastNotified == effects[Len(effects)][2]

\* C19: after load_sleep_wake_grammar has returned, and after any wake and
\* sleep calls with any force values, the grammar's exclusiveness equals the
\* sleeping flag, the noise rule's context is true exactly when sleeping, and
\* the last status notified (and the status line text handed to the App) is
\* SLEEPING exactly when sleeping
C19_FlagsAgreeWithSleeping ==
    mpc = "loaded" =>
        /\ exclusive = sleeping
        /\ sleep_noise_rule_active = sleeping
        /\ effects # <<>>
        /\ (LastNotified = "SLEEPING") <=> sleeping
        /\ (LastNotified = "READY") <=> ~sleeping
        /\ (IF Idle("main") THEN lastSet["status_line_var"] ELSE wr["main"].val)
              = (IF sleeping THEN Asleep ELSE Listening)

\* C19 witness: awake, then an unforced sleep call made the state asleep
C19_Witness ==
    /\ mpc = "loaded"
    /\ sleeping /\ exclusive
    /\ call = <<"sleep", FALSE, FALSE>>
    /\ Idle("main")

-----------------------------------------------------------------------------
(* SpecUI: the recognition thread calls the three setters of App while the  *)
(* App thread executes run()                                                *)

StatusTexts == {Initializing, Asleep, Listening}
\* "Last heard: hi", "Last heard: a"
HeardTexts == {LastHeard \o <<104, 105>>, LastHeard \o <<97>>}

UiSetStatusLine ==
    /\ Idle("main")
    /\ procState = "running"
    /\ \E s \in StatusTexts : set_status_line("main", s)
    /\ UNCHANGED <<lifeVars, upc, sleepVars, attr, fakeVal, realVal, lastSet, ctxVars>>

UiSetLastHeard ==
    /\ Idle("main")
    /\ procState = "running"
    /\ \E s \in HeardTexts : set_last_heard("main", s)
    /\ UNCHANGED <<lifeVars, upc, sleepVars, attr, fakeVal, realVal, lastSet, ctxVars>>

UiSetVisualContext ==
    \E value \in Values \cup {None} : set_visual_context("main", <<97>>, value)

UiStore == FinishSet("main")

NextUI == UiSetStatusLine \/ UiSetLastHeard \/ UiSetVisualContext \/ UiStore \/ UiRun
SpecUI == InitAt("harness") /\ [][NextUI]_vars

-----------------------------------------------------------------------------
(* SpecSleep: load_sleep_wake_grammar is called with either initial state,  *)
(* then wake and sleep are called with any force, while App.run executes    *)

SleepLoad ==
    /\ mpc = "load_sleep_wake"
    /\ Idle("main")
    /\ \E initial_awake \in BOOLEAN : load_sleep_wake_grammar("main", initial_awake)
    /\ mpc' = "loaded"
    /\ UNCHANGED <<lifeRest, upc, attr, fakeVal, realVal, lastSet, ctxVars>>

SleepCallWake ==
    /\ mpc = "loaded"
    /\ Idle("main")
    /\ \E force \in BOOLEAN : wake("main", force)
    /\ UNCHANGED <<lifeVars, upc, attr, fakeVal, realVal, lastSet, ctxVars>>

SleepCallSleep ==
    /\ mpc = "loaded"
    /\ Idle("main")
    /\ \E force \in BOOLEAN : sleep("main", force)
    /\ UNCHANGED <<lifeVars, upc, attr, fakeVal, realVal, lastSet, ctxVars>>

SleepStore == FinishSet("main")

NextSleep == SleepLoad \/ SleepCallWake \/ SleepCallSleep \/ SleepStore \/ UiRun
SpecSleep == InitAt("load_sleep_wake") /\ [][NextSleep]_vars

-----------------------------------------------------------------------------
(* Claims about wake and sleep, checked under SpecSleep *)

\* how many times x occurs in the sequence s
Count(s, x) == Cardinality({i \in 1..Len(s) : s[i] = x})

C12_LoadAsleep ==
    [][(mpc = "load_sleep_wake" /\ mpc' = "loaded" /\ call'[1] = "sleep") =>
          /\ sleeping' /\ exclusive' /\ sleep_noise_rule_active'
          /\ call = <<"none", FALSE, FALSE>>
          /\ call' = <<"sleep", TRUE, FALSE>>
          /\ effects' = << <<"set_exclusiveness", "True">>,
                           <<"notify_status", "SLEEPING">> >>
          /\ wr'["main"].val = Asleep]_vars

\* C12 witness: the grammar was loaded asleep and nothing was called since
C12_Witness ==
    /\ mpc = "loaded"
    /\ call = <<"sleep", TRUE, FALSE>>
    /\ sleeping /\ exclusive /\ sleep_noise_rule_active
    /\ Idle("main")
    /\ Value("status_line_var") = Asleep

-----------------------------------------------------------------------------
(* Claims about the status variables, checked under SpecUI *)

\* C4: when every set on a status variable completed before App.run began to
\* upgrade it, the tk.StringVar that self.<v> refers to after the upgrade holds
\* the last value written (the initial empty string when nothing was written).
C4_UpgradeKeepsLastWrite ==
    \A v \in Vars :
        (attr[v] = "real" /\ ~lateWrite[v]) => realVal[v] = lastSet[v]

\* C4 witness: a value was written, then the variable was upgraded
C4_Witness ==
    /\ attr["status_line_var"] = "real"
    /\ ~lateWrite["status_line_var"]
    /\ lastSet["status_line_var"] = Listening

\* C5 (as claimed): once a set call and the upgrade of its variable have both
\* completed, in whatever interleaving, the live value is the last value written.
C5_NoUpdateLostInRace ==
    \A v \in Vars :
        (attr[v] = "real" /\ \A t \in Writers : wr[t].var # v)
            => realVal[v] = lastSet[v]

-----------------------------------------------------------------------------
(* Claims about set_visual_context, checked under SpecCtx *)

\* the lines of d taken in the order p
Reordered(d, p) == [i \in 1..Len(d) |-> d[p[i]]]

\* C6 (as claimed): set_visual_context(name, None) for a name that is not in
\* the context map raises no error and leaves the context map and the
\* composite context value unchanged.
C6_RemovingAbsentNameIsNoOp ==
    [][\A name \in Names :
          (set_visual_context("main", name, None) /\ ~HasKey(context, name))
              => /\ err'["main"] = "none"
                 /\ context' = context
                 /\ Value("context_var")' = Value("context_var")]_vars

\* C7: the composite context string left by the calls is the same for every
\* insertion order of the entries of the context map: rendering the entries
\* in any other order gives the string the variable holds.
C7_RenderingOrderIndependent ==
    Idle("main") =>
        \A p \in Permutations(1..Len(context)) :
            Render(Reordered(context, p)) = Value("context_var")

\* C7 witness: two entries were inserted in an order that is not the sorted one
C7_Witness ==
    /\ Idle("main")
    /\ Len(context) >= 2
    /\ Lines(context) # sorted(Lines(context))
    /\ Value("context_var") = Render(context)

\* C8 (as claimed): after every call the composite is one "key: value" line per
\* entry, joined by newlines, the lines in ascending order of their keys.
C8_LinesAscendByKey ==
    Idle("main") =>
        \E p \in Permutations(1..Len(context)) :
            /\ \A i, j \in 1..Len(context) :
                   i < j => StrLess(context[p[i]][1], context[p[j]][1])
            /\ Value("context_var") = join(<<10>>, Lines(Reordered(context, p)))

\* C8 (amended): after every call the composite is one "key: value" line per
\* entry, joined by newlines, the lines in ascending order of the whole line
\* strings (code point order), which is not always the order of the keys.
C8_LinesAscendByLine ==
    Idle("main") =>
        \E p \in Permutations(1..Len(context)) :
            /\ \A i, j \in 1..Len(context) :
                   i < j => ~StrLess(Line(context[p[j]]), Line(context[p[i]]))
            /\ Value("context_var") = join(<<10>>, Lines(Reordered(context, p)))

\* C8 witness: the map holds a name and a longer name it is a prefix of
C8_Witness ==
    /\ Idle("main")
    /\ HasKey(context, <<97>>)
    /\ HasKey(context, <<97, 49>>)
    /\ Len(context) = 3

-----------------------------------------------------------------------------
(* SpecEvents: a harness starts the reloader (start_watchdog_observer with   *)
(* do_restart = restart_process) and the App thread; file events arrive, the *)
(* clock runs, the window is closed and the dialog answered, and os.execl    *)
(* replaces the process with a fresh one                                     *)

\* bound: the last tick of the clock in SpecEvents
MaxWatchTime == 4

WatchTick == TickTo(MaxWatchTime)

\* the quit dialog is answered; the answer is recorded
CloseDialog ==
    \E answer \in BOOLEAN :
        /\ on_window_close(answer)
        /\ dialog' = <<1 - dialog[1], answer>>

\* os.execl(python, python, *sys.argv): the process starts over; the reloader
\* of the new process does not exist until start_watchdog_observer runs
ProcessReplaced ==
    /\ procState = "reexec"
    /\ mpc' = "watchdog"
    /\ upc' = "tk_root"
    /\ procState' = "running"
    /\ connected' = FALSE
    /\ engineCalls' = {}
    /\ disconnects' = 0
    /\ quitRequests' = 0
    /\ interrupted' = FALSE
    /\ observer' = "none"
    /\ last_modified' = 0
    /\ heard' = "none"
    /\ requestedAt' = -1
    /\ sleeping' = FALSE
    /\ exclusive' = FALSE
    /\ call' = <<"none", FALSE, FALSE>>
    /\ effects' = <<>>
    /\ attr' = [v \in Vars |-> "fake"]
    /\ fakeVal' = [v \in Vars |-> <<>>]
    /\ realVal' = [v \in Vars |-> <<>>]
    /\ wr' = [t \in Writers |-> NoWrite]
    /\ lastSet' = [v \in Vars |-> <<>>]
    /\ lateWrite' = [v \in Vars |-> FALSE]
    /\ context' = <<>>
    /\ err' = [t \in Writers |-> "none"]
    /\ UNCHANGED <<now, restartTicks, dialog>>

NextEvents ==
    \/ MainStartWatchdog \/ on_any_event \/ WatchTick \/ ProcessReplaced
    \/ UiRun \/ CloseDialog
SpecEvents == InitAt("watchdog") /\ [][NextEvents]_vars

\* C16: any two file events that both call do_restart are at least one second
\* apart, also when the second one is delivered to the restarted process
C16_RestartsASecondApart ==
    /\ restartTicks[1] >= 0 => restartTicks[2] - restartTicks[1] >= DebounceWindow
    /\ (procState = "reexec" /\ restartTicks[2] >= 0) => last_modified = restartTicks[2]

\* C16 witness: the reloader has called do_restart twice
C16_Witness == restartTicks[1] >= 0 /\ procState = "reexec"

\* C17: a quit dialog answered no changes nothing: no shutdown request, no
\* engine call, the App thread still in its main loop with the same variables;
\* a quit dialog answered yes calls do_quit exactly once
C17_QuitOnlyOnConfirmation ==
    [][dialog' # dialog =>
          IF dialog'[2]
          THEN /\ quitRequests' = quitRequests + 1
               /\ disconnects' = disconnects + 1
               /\ <<"ui", "disconnect">> \in engineCalls'
               /\ upc' = upc /\ procState' = procState
          ELSE /\ UNCHANGED <<quitRequests, disconnects, engineCalls, connected,
                              requestedAt>>
               /\ upc = "mainloop" /\ upc' = upc
               /\ procState = "running" /\ procState' = procState
               /\ UNCHANGED <<mpc, interrupted, observer, attr, fakeVal, realVal, wr,
                              lastSet, lateWrite, context, err, sleepVars>>]_vars

\* C17 witness: with no restart in between, two dialogs were answered, the
\* last one with yes, and there was one quit request: the other answer was no
C17_Witness ==
    /\ dialog = <<0, TRUE>>
    /\ quitRequests = 1
    /\ restartTicks = <<-1, -1>>

-----------------------------------------------------------------------------
(* SpecRace: set_visual_context called from two threads at once, on an App   *)
(* whose variables are not being upgraded                                    *)

RaceSet ==
    \E t \in Writers, name \in Names, value \in Values \cup {None} :
        set_visual_context(t, name, value)
RaceStore == \E t \in Writers : FinishSet(t)

NextRace == RaceSet \/ RaceStore
SpecRace == Init /\ [][NextRace]_vars

\* C18 (as claimed): whenever no set_visual_context call is in progress, the
\* composite context value is the sorted rendering of the context map
C18_CompositeMatchesFinalContext ==
    (\A t \in Writers : Idle(t)) => Value("context_var") = Render(context)

====
